---- MODULE Spec2Model ----
(***************************************************************************)
(* A model of prompt/cli.py: the file-selection engine (collect_files,     *)
(* is_ignored, should_include_file, is_binary_file), the size analysis     *)
(* (analyze_content_sizes) and the session loop and output stage of cli.   *)
(*                                                                         *)
(* A path is the sequence of its components, counted from the filesystem   *)
(* root (<<"w", "d", "f.py">> is /w/d/f.py); a relative path is the        *)
(* sequence of its components, and <<>> is Path('.').                      *)
(***************************************************************************)
EXTENDS Integers, Sequences, FiniteSets, TLC

VARIABLES
    fs,                   \* the file tree: path of a file -> its record
    paths,                \* cli argument: the roots, in order
    include,              \* cli option -i: sequence of patterns
    exclude,              \* cli option -x: sequence of patterns
    no_gitignore,         \* cli flag
    no_binary_filter,     \* cli flag
    use_extension_filter, \* cli flag
    pc,                   \* position of the run
    current_exclude,      \* cli: the exclude list of the session
    all_files,            \* collect_files: the files added so far
    root_idx,             \* collect_files: index into paths of the root at hand
    gitignore_cache,      \* collect_files: directory -> PathSpec, of the root at hand
    walk_stack,           \* os.walk: the directories still to be yielded
    files_to_process,     \* cli: the sorted selection of this iteration
    file_contents,        \* cli: file -> length of its decoded text
    common_root,          \* cli: the common ancestor of the selection
    large_items,          \* cli: the offenders of this iteration
    written,              \* the destinations the final text was written to
    opt_copy,             \* cli flag --copy as read by the output stage
    opt_output,           \* cli option --output as read by the output stage
    walk_idx,             \* history: index of the root the walk history below belongs to
    visited,              \* history: directories os.walk yielded for the root at hand
    tested,               \* history: paths handed to is_ignored for the root at hand
    added_via,            \* history: <<file, index of the root that added it>>
    prev_files,           \* history: the selection of the iteration before
    confirms,             \* history: number of confirmed regenerations
    binary_result         \* is_binary_file: <<>> before the call, then <<its result>>

vars == <<fs, paths, include, exclude, no_gitignore, no_binary_filter,
          use_extension_filter, pc, current_exclude, all_files, root_idx,
          gitignore_cache, walk_stack, files_to_process, file_contents,
          common_root, large_items, written, opt_copy, opt_output, walk_idx,
          visited, tested, added_via, prev_files, confirms, binary_result>>

----------------------------------------------------------------------------
(* Bounds of the model. *)

\* the number of confirmed regenerations explored in one session
MaxConfirms == 3

\* the longest byte sample explored for is_binary_file
MaxChunkLen == 5

----------------------------------------------------------------------------
(* Sequences and paths. *)

IsPrefix(s, t) == Len(s) <= Len(t) /\ SubSeq(t, 1, Len(s)) = s

IsProperPrefix(s, t) == Len(s) < Len(t) /\ SubSeq(t, 1, Len(s)) = s

Tail_n(s, n) == SubSeq(s, n + 1, Len(s))

Front(s) == SubSeq(s, 1, Len(s) - 1)

Last(s) == s[Len(s)]

Range(s) == {s[i] : i \in 1..Len(s)}

\* Path.parents of a relative path: every proper prefix, Path('.') included
Parents(rel) == {SubSeq(rel, 1, k) : k \in 0..(Len(rel) - 1)}

\* rank of a component name in Python's string order (code points)
NameRank ==
    [n \in {".", ".git", ".gitignore", "big.txt", "d", "e", "f.py", "g.py",
            "h.py", "img.png", "lnk", "o", "small.txt", "t", "w"} |->
       CASE n = "."          -> 1
         [] n = ".git"       -> 2
         [] n = ".gitignore" -> 3
         [] n = "big.txt"    -> 4
         [] n = "d"          -> 5
         [] n = "e"          -> 6
         [] n = "f.py"       -> 7
         [] n = "g.py"       -> 8
         [] n = "h.py"       -> 9
         [] n = "img.png"    -> 10
         [] n = "lnk"        -> 11
         [] n = "o"          -> 12
         [] n = "small.txt"  -> 13
         [] n = "t"          -> 14
         [] n = "w"          -> 15]

\* p < q as Python compares two Path objects: by their parts, as lists
RECURSIVE PathLess(_, _)
PathLess(p, q) ==
    IF q = <<>> THEN FALSE
    ELSE IF p = <<>> THEN TRUE
    ELSE IF p[1] = q[1] THEN PathLess(Tail(p), Tail(q))
    ELSE NameRank[p[1]] < NameRank[q[1]]

\* sorted(list(S)) for a set of paths
RECURSIVE SortPaths(_)
SortPaths(S) ==
    IF S = {} THEN <<>>
    ELSE LET m == CHOOSE x \in S : \A y \in S \ {x} : PathLess(x, y)
         IN  <<m>> \o SortPaths(S \ {m})

\* Path.suffix of a component name
Suffix(n) ==
    CASE n \in {"big.txt", "small.txt"} -> ".txt"
      [] n \in {"f.py", "g.py", "h.py"} -> ".py"
      [] n = "img.png"                  -> ".png"
      [] OTHER                          -> ""

----------------------------------------------------------------------------
(* gitwildmatch patterns, as pathspec compiles and matches them.           *)
(* A pattern line is the record [neg, lead, segs, trail]: an optional      *)
(* leading "!", an optional leading "/", the segments between the slashes  *)
(* and an optional trailing "/".                                           *)

Pat(segs) == [neg |-> FALSE, lead |-> FALSE, segs |-> segs, trail |-> FALSE]

DirPat(segs) == [neg |-> FALSE, lead |-> FALSE, segs |-> segs, trail |-> TRUE]

AnchoredPat(segs) == [neg |-> FALSE, lead |-> TRUE, segs |-> segs, trail |-> FALSE]

NegPat(segs) == [neg |-> TRUE, lead |-> FALSE, segs |-> segs, trail |-> FALSE]

\* the segment list pathspec builds the regular expression from
NormSegs(p) ==
    LET s0 == IF p.lead THEN p.segs
              ELSE IF Len(p.segs) = 1 /\ p.segs[1] # "**" THEN <<"**">> \o p.segs
              ELSE p.segs
    IN  IF p.trail THEN Append(s0, "**") ELSE s0

\* one segment of a pattern against one component of a path
SegMatches(seg, name) ==
    \/ seg = "*"
    \/ seg = name
    \/ seg = "*.py" /\ Suffix(name) = ".py"
    \/ seg = "*.txt" /\ Suffix(name) = ".txt"

\* the regular expression of segments ps[i..] against the components comps[j..]
RECURSIVE MatchFrom(_, _, _, _)
MatchFrom(ps, i, comps, j) ==
    LET end == Len(ps)
        n   == Len(comps)
    IN  IF ps[i] = "**"
        THEN IF i = 1 /\ i = end THEN n >= 1
             ELSE IF i = end THEN j <= n
             ELSE \E k \in j..n : MatchFrom(ps, i + 1, comps, k)
        ELSE /\ j <= n
             /\ SegMatches(ps[i], comps[j])
             /\ (i = end \/ MatchFrom(ps, i + 1, comps, j + 1))

\* str() of a relative path, as the components match_file sees
StrComps(rel) == IF rel = <<>> THEN <<".">> ELSE rel

PatternMatches(p, rel) == MatchFrom(NormSegs(p), 1, StrComps(rel), 1)

\* PathSpec.match_file: the last pattern that matches decides
RECURSIVE MatchFile(_, _)
MatchFile(spec, rel) ==
    IF spec = <<>> THEN FALSE
    ELSE IF PatternMatches(Last(spec), rel) THEN ~Last(spec).neg
    ELSE MatchFile(Front(spec), rel)

\* str(item) of an offender, read back as a pattern line
OffenderPattern(item) == Pat(StrComps(item))

----------------------------------------------------------------------------
(* The file tree.  fs maps the path of every file to a record:             *)
(*   size     the length of the text read_text decodes from it             *)
(*   bytes    its first bytes                                              *)
(*   readable whether open() succeeds                                      *)
(*   link     <<>> for a regular file, else the path a symbolic link       *)
(*            resolves to                                                  *)
(*   rules    the pattern lines of a .gitignore file                       *)
(* The directories are the proper prefixes of the paths of fs.             *)

IsFile(p) == p \in DOMAIN fs

IsDir(p) == \E f \in DOMAIN fs : IsProperPrefix(p, f)

\* Path.resolve()
Resolve(p) == IF IsFile(p) /\ fs[p].link # <<>> THEN fs[p].link ELSE p

\* the dirs and the files os.walk lists for a directory
ChildDirs(dir) == {Append(dir, f[Len(dir) + 1]) : f \in {g \in DOMAIN fs : Len(g) > Len(dir) + 1 /\ IsPrefix(dir, g)}}

ChildFiles(dir) == {f \in DOMAIN fs : Front(f) = dir}

----------------------------------------------------------------------------
(* Binary detection. *)

LARGE_CONTENT_THRESHOLD_PERCENT == 35

DEFAULT_OUTPUT_FILENAME == "out.txt"

\* the suffixes of DEFAULT_BINARY_EXTENSIONS that names of the model can have
DEFAULT_BINARY_EXTENSIONS == {".png", ".jpg", ".pdf", ".zip", ".pyc", ".lock", ".out"}

lockfile_patterns == {"package-lock.json", "yarn.lock", "go.sum"}

sample_size == 8192

\* the test of line 64 on one byte: TRUE for a byte counted as text
IsTextByte(byte) == (9 <= byte /\ byte <= 13) \/ (32 <= byte /\ byte <= 126) \/ byte >= 128

\* the loop of lines 61-65
RECURSIVE CountNonText(_)
CountNonText(c) ==
    IF c = <<>> THEN 0
    ELSE (IF IsTextByte(Head(c)) THEN 0 ELSE 1) + CountNonText(Tail(c))

\* lines 52-71, on the sample read; the quotient compared exactly
IsBinaryChunk(c) ==
    IF c = <<>> THEN FALSE
    ELSE IF 0 \in Range(c) THEN TRUE
    ELSE IF Len(c) > 0 /\ 10 * CountNonText(c) > 3 * Len(c) THEN TRUE
    ELSE FALSE

\* f.read(sample_size)
ReadChunk(file_path) ==
    SubSeq(fs[file_path].bytes, 1,
           IF Len(fs[file_path].bytes) < sample_size THEN Len(fs[file_path].bytes) ELSE sample_size)

is_binary_file(file_path) ==
    IF ~fs[file_path].readable THEN TRUE
    ELSE IsBinaryChunk(ReadChunk(file_path))

should_include_file(file_path) ==
    IF no_binary_filter THEN TRUE
    ELSE IF Suffix(Last(file_path)) \in DEFAULT_BINARY_EXTENSIONS THEN FALSE
    ELSE IF Last(file_path) \in lockfile_patterns THEN FALSE
    ELSE IF use_extension_filter THEN TRUE
    ELSE ~is_binary_file(file_path)

----------------------------------------------------------------------------
(* Ignore rules. *)

\* load_gitignore_spec: the PathSpec of a .gitignore file, <<>> for None
load_gitignore_spec(gitignore_path) ==
    IF fs[gitignore_path].readable THEN fs[gitignore_path].rules ELSE <<>>

\* the parents of a relative path the loop of line 178 looks up
CheckedParents(relative_path) == Parents(relative_path) \ {<<>>}

is_ignored(path, cache, search_root, exclude_spec, include_spec) ==
    LET path_abs == Resolve(path)
        inside   == IsPrefix(search_root, path_abs)
        relative == Tail_n(path_abs, Len(search_root))
        matched  == IF inside THEN relative ELSE path_abs
    IN  IF MatchFile(exclude_spec, matched) THEN TRUE
        ELSE IF /\ inside
                /\ \/ /\ search_root \in DOMAIN cache
                      /\ MatchFile(cache[search_root], relative)
                   \/ \E parent \in CheckedParents(relative) :
                        /\ (search_root \o parent) \in DOMAIN cache
                        /\ MatchFile(cache[search_root \o parent],
                                     Tail_n(relative, Len(parent)))
             THEN TRUE
        ELSE IF include_spec # <<>> /\ ~MatchFile(include_spec, matched) THEN TRUE
        ELSE FALSE

----------------------------------------------------------------------------
(* collect_files, one step per root and one per directory os.walk yields.  *)

EmptyMap == [x \in {} |-> <<>>]

\* line 258
SearchRoot(start_path) == IF IsDir(start_path) THEN start_path ELSE Front(start_path)

\* lines 247-255: the cache a root starts with
SeedCache(start_path) ==
    LET root_gitignore == Append(SearchRoot(start_path), ".gitignore")
    IN  IF /\ ~no_gitignore
           /\ IsFile(root_gitignore)
           /\ load_gitignore_spec(root_gitignore) # <<>>
        THEN (SearchRoot(start_path) :> load_gitignore_spec(root_gitignore))
        ELSE EmptyMap

\* lines 272-277: the cache after os.walk yielded root_path
LoadCache(cache, root_path) ==
    LET gitignore_file == Append(root_path, ".gitignore")
    IN  IF /\ ~no_gitignore
           /\ root_path \notin DOMAIN cache
           /\ IsFile(gitignore_file)
           /\ load_gitignore_spec(gitignore_file) # <<>>
        THEN (root_path :> load_gitignore_spec(gitignore_file)) @@ cache
        ELSE cache

\* KeptDirs with the removal of lines 286-287 left out
KeptDirsUnpruned(root_path, cache, search_root) == ChildDirs(root_path)

\* lines 280-287: the sub-directories left in dirs
KeptDirs(root_path, cache, search_root) ==
    {d \in ChildDirs(root_path) :
        ~is_ignored(d, cache, search_root, current_exclude, include)}

\* lines 262-264 and 290-294: the files of a set that are added
Selected(files, cache, search_root) ==
    {f \in files : /\ ~is_ignored(f, cache, search_root, current_exclude, include)
                   /\ should_include_file(f)}

\* the orders in which os.walk may go through a set of directories
Orders(S) == {s \in [1..Cardinality(S) -> S] : Range(s) = S}

\* lines 237-241: collect_files is entered
BeginCollect ==
    /\ pc = "Selecting"
    /\ all_files' = {}
    /\ added_via' = {}
    /\ root_idx' = 1
    /\ pc' = "Roots"
    /\ UNCHANGED <<fs, paths, include, exclude, no_gitignore, no_binary_filter,
                   use_extension_filter, current_exclude, gitignore_cache,
                   walk_stack, files_to_process, file_contents, common_root,
                   large_items, written, opt_copy, opt_output, walk_idx, visited, tested,
                   prev_files, confirms, binary_result>>

\* lines 243-265: the next root; a file root is tested and added at once
StartRoot ==
    /\ pc = "Roots"
    /\ root_idx <= Len(paths)
    /\ LET start_path  == Resolve(paths[root_idx])
           cache       == SeedCache(start_path)
           search_root == SearchRoot(start_path)
       IN  /\ gitignore_cache' = cache
           /\ walk_idx' = root_idx
           /\ visited' = {}
           /\ IF IsFile(start_path)
              THEN /\ tested' = {start_path}
                   /\ all_files' = all_files \cup Selected({start_path}, cache, search_root)
                   /\ added_via' = added_via \cup
                        {<<f, root_idx>> : f \in Selected({start_path}, cache, search_root)}
                   /\ root_idx' = root_idx + 1
                   /\ walk_stack' = <<>>
                   /\ pc' = "Roots"
              ELSE /\ tested' = {}
                   /\ walk_stack' = <<start_path>>
                   /\ pc' = "Walk"
                   /\ UNCHANGED <<all_files, added_via, root_idx>>
    /\ UNCHANGED <<fs, paths, include, exclude, no_gitignore, no_binary_filter,
                   use_extension_filter, current_exclude, files_to_process,
                   file_contents, common_root, large_items, written, opt_copy,
                   opt_output, prev_files, confirms, binary_result>>

\* lines 268-294: one directory yielded by os.walk
WalkDir ==
    /\ pc = "Walk"
    /\ walk_stack # <<>>
    /\ LET root_path   == Head(walk_stack)
           search_root == SearchRoot(Resolve(paths[root_idx]))
           cache       == LoadCache(gitignore_cache, root_path)
           kept        == KeptDirs(root_path, cache, search_root)
           added       == Selected(ChildFiles(root_path), cache, search_root)
       IN  /\ gitignore_cache' = cache
           /\ visited' = visited \cup {root_path}
           /\ tested' = tested \cup ChildDirs(root_path) \cup ChildFiles(root_path)
           /\ all_files' = all_files \cup added
           /\ added_via' = added_via \cup {<<f, root_idx>> : f \in added}
           /\ \E order \in Orders(kept) :
                walk_stack' = order \o Tail(walk_stack)
           /\ IF walk_stack' = <<>>
              THEN root_idx' = root_idx + 1 /\ pc' = "Roots"
              ELSE UNCHANGED <<root_idx, pc>>
    /\ UNCHANGED <<fs, paths, include, exclude, no_gitignore, no_binary_filter,
                   use_extension_filter, current_exclude, files_to_process,
                   file_contents, common_root, large_items, written, opt_copy,
                   opt_output, walk_idx, prev_files, confirms, binary_result>>

\* lines 296 and 354-357: collect_files returns
EndCollect ==
    /\ pc = "Roots"
    /\ root_idx > Len(paths)
    /\ files_to_process' = SortPaths(all_files)
    /\ pc' = IF all_files = {} THEN "Empty" ELSE "Reading"
    /\ UNCHANGED <<fs, paths, include, exclude, no_gitignore, no_binary_filter,
                   use_extension_filter, current_exclude, all_files, root_idx,
                   gitignore_cache, walk_stack, file_contents, common_root,
                   large_items, written, opt_copy, opt_output, walk_idx, visited, tested,
                   added_via, prev_files, confirms, binary_result>>

----------------------------------------------------------------------------
(* analyze_content_sizes. *)

\* os.path.commonpath of a non-empty set of paths
CommonPath(S) ==
    LET p == CHOOSE x \in S : TRUE
        k == CHOOSE n \in 0..Len(p) :
               /\ \A q \in S : IsPrefix(SubSeq(p, 1, n), q)
               /\ \A m \in (n + 1)..Len(p) : \E q \in S : ~IsPrefix(SubSeq(p, 1, m), q)
    IN  SubSeq(p, 1, k)

\* lines 306-314: the keys of item_sizes one file adds its size to
SizeKeys(path, root) ==
    IF IsPrefix(root, path)
    THEN LET relative_path == Tail_n(path, Len(root))
         IN  {relative_path} \cup (Parents(relative_path) \ {<<>>})
    ELSE {path}

RECURSIVE SumOver(_, _)
SumOver(contents, S) ==
    IF S = {} THEN 0
    ELSE LET p == CHOOSE x \in S : TRUE
         IN  contents[p] + SumOver(contents, S \ {p})

\* line 300
TotalSize(contents) == SumOver(contents, DOMAIN contents)

\* the value of item_sizes[key] after the loop of lines 305-314
ItemSize(contents, root, key) ==
    SumOver(contents, {p \in DOMAIN contents : key \in SizeKeys(p, root)})

\* lines 316-319
PotentialCulprits(contents, root) ==
    {key \in UNION {SizeKeys(p, root) : p \in DOMAIN contents} :
        ItemSize(contents, root, key) * 100 >
            LARGE_CONTENT_THRESHOLD_PERCENT * TotalSize(contents)}

\* IsNearest with the test on the parents left out
IsAnyCulprit(path, potential_culprits) == TRUE

\* line 323
IsNearest(path, potential_culprits) ==
    \A parent \in Parents(path) : parent \notin potential_culprits

analyze_content_sizes(contents, root) ==
    IF TotalSize(contents) = 0 THEN <<>>
    ELSE SortPaths({path \in PotentialCulprits(contents, root) :
                      IsNearest(path, PotentialCulprits(contents, root))})

----------------------------------------------------------------------------
(* The session loop and the output stage of cli. *)

\* lines 349-351
InitialExclude(user_exclude) ==
    user_exclude \o <<DirPat(<<".git">>), Pat(<<".git", "**">>)>>

\* ExtendExclude assigning the new patterns instead of appending them
ReplaceExclude(cur, items) == [i \in 1..Len(items) |-> OffenderPattern(items[i])]

\* line 370
ExtendExclude(cur, items) ==
    cur \o [i \in 1..Len(items) |-> OffenderPattern(items[i])]

\* Destinations with "else" in place of "elif not copy"
DestinationsElse(copy, output) ==
    (IF copy THEN {"clipboard"} ELSE {})
    \cup (IF output THEN {"output"} ELSE {DEFAULT_OUTPUT_FILENAME})

\* lines 400-409: where the final text goes
Destinations(copy, output) ==
    (IF copy THEN {"clipboard"} ELSE {})
    \cup (IF output THEN {"output"}
          ELSE IF ~copy THEN {DEFAULT_OUTPUT_FILENAME}
          ELSE {})

\* lines 359-360: read_text of an unreadable file raises, and cli with it
ReadContents ==
    /\ pc = "Reading"
    /\ common_root' = CommonPath(Range(files_to_process))
    /\ IF \E f \in Range(files_to_process) : ~fs[f].readable
       THEN pc' = "Crashed" /\ UNCHANGED file_contents
       ELSE /\ file_contents' = [f \in Range(files_to_process) |-> fs[f].size]
            /\ pc' = "Analyzing"
    /\ UNCHANGED <<fs, paths, include, exclude, no_gitignore, no_binary_filter,
                   use_extension_filter, current_exclude, all_files, root_idx,
                   gitignore_cache, walk_stack, files_to_process, large_items,
                   written, opt_copy, opt_output, walk_idx, visited, tested, added_via,
                   prev_files, confirms, binary_result>>

\* lines 362-364 and 376-377
Analyze ==
    /\ pc = "Analyzing"
    /\ large_items' = analyze_content_sizes(file_contents, common_root)
    /\ pc' = IF large_items' # <<>> THEN "AwaitingConfirmation" ELSE "Rendering"
    /\ UNCHANGED <<fs, paths, include, exclude, no_gitignore, no_binary_filter,
                   use_extension_filter, current_exclude, all_files, root_idx,
                   gitignore_cache, walk_stack, files_to_process, file_contents,
                   common_root, written, opt_copy, opt_output, walk_idx, visited, tested,
                   added_via, prev_files, confirms, binary_result>>

\* lines 369-372: the operator confirms
Confirm ==
    /\ pc = "AwaitingConfirmation"
    /\ confirms < MaxConfirms
    /\ current_exclude' = ExtendExclude(current_exclude, large_items)
    /\ prev_files' = Range(files_to_process)
    /\ confirms' = confirms + 1
    /\ pc' = "Selecting"
    /\ UNCHANGED <<fs, paths, include, exclude, no_gitignore, no_binary_filter,
                   use_extension_filter, all_files, root_idx, gitignore_cache,
                   walk_stack, files_to_process, file_contents, common_root,
                   large_items, written, opt_copy, opt_output, walk_idx, visited, tested,
                   added_via, binary_result>>

\* lines 373-375: the operator declines
Decline ==
    /\ pc = "AwaitingConfirmation"
    /\ pc' = "Rendering"
    /\ UNCHANGED <<fs, paths, include, exclude, no_gitignore, no_binary_filter,
                   use_extension_filter, current_exclude, all_files, root_idx,
                   gitignore_cache, walk_stack, files_to_process, file_contents,
                   common_root, large_items, written, opt_copy, opt_output,
                   walk_idx, visited, tested, added_via, prev_files, confirms,
                   binary_result>>

\* lines 379-409
WriteOutput ==
    /\ pc = "Rendering"
    /\ written' = Destinations(opt_copy, opt_output)
    /\ pc' = "Done"
    /\ UNCHANGED <<fs, paths, include, exclude, no_gitignore, no_binary_filter,
                   use_extension_filter, current_exclude, all_files, root_idx,
                   gitignore_cache, walk_stack, files_to_process, file_contents,
                   common_root, large_items, opt_copy, opt_output, walk_idx, visited,
                   tested, added_via, prev_files, confirms, binary_result>>

----------------------------------------------------------------------------
(* The inputs. *)

W == <<"w">>

Text(n) == [size |-> n, bytes |-> <<104, 105, 10>>, readable |-> TRUE, link |-> <<>>, rules |-> <<>>]

Unreadable(n) == [size |-> n, bytes |-> <<104, 105, 10>>, readable |-> FALSE, link |-> <<>>, rules |-> <<>>]

Empty == [size |-> 0, bytes |-> <<>>, readable |-> TRUE, link |-> <<>>, rules |-> <<>>]

NulFile(n) == [size |-> n, bytes |-> <<137, 80, 0>>, readable |-> TRUE, link |-> <<>>, rules |-> <<>>]

Gitignore(rules) == [size |-> 10, bytes |-> <<104, 10>>, readable |-> TRUE, link |-> <<>>, rules |-> rules]

Link(target) == [size |-> 100, bytes |-> <<104, 105, 10>>, readable |-> TRUE, link |-> target, rules |-> <<>>]

\* the file tree of a sequence of <<path, <<>> or <<record>>>> pairs
Tree(entries) ==
    [p \in {entries[i][1] : i \in {j \in 1..Len(entries) : entries[j][2] # <<>>}} |->
        (CHOOSE e \in Range(entries) : e[1] = p)[2][1]]

\* the state cli starts the loop in
Start ==
    /\ pc = "Selecting"
    /\ current_exclude = InitialExclude(exclude)
    /\ all_files = {}
    /\ root_idx = 1
    /\ gitignore_cache = EmptyMap
    /\ walk_stack = <<>>
    /\ files_to_process = <<>>
    /\ file_contents = EmptyMap
    /\ common_root = <<>>
    /\ large_items = <<>>
    /\ written = {}
    /\ walk_idx = 0
    /\ visited = {}
    /\ tested = {}
    /\ added_via = {}
    /\ prev_files = {}
    /\ confirms = 0
    /\ binary_result = <<>>

\* click.Path(exists=True)
RootsExist == \A i \in 1..Len(paths) : IsFile(paths[i]) \/ IsDir(paths[i])

Init ==
    /\ \E big \in {<<>>, <<Text(800)>>, <<Text(100)>>},
          small \in {<<>>, <<Text(200)>>, <<Unreadable(200)>>, <<Empty>>, <<NulFile(200)>>},
          img \in {<<>>, <<NulFile(90)>>},
          df \in {<<>>, <<Text(800)>>, <<Text(100)>>},
          dg \in {<<>>, <<Text(100)>>},
          dgi \in {<<>>, <<Gitignore(<<Pat(<<"g.py">>)>>)>>} :
         fs = Tree(<< <<W \o <<"big.txt">>, big>>,
                      <<W \o <<"small.txt">>, small>>,
                      <<W \o <<"img.png">>, img>>,
                      <<W \o <<"d", ".gitignore">>, dgi>>,
                      <<W \o <<"d", "f.py">>, df>>,
                      <<W \o <<"d", "g.py">>, dg>> >>)
    /\ paths \in {<<W>>, <<W \o <<"d">> >>, <<W \o <<"big.txt">> >>,
                  <<W \o <<"d">>, W \o <<"small.txt">> >>}
    /\ RootsExist
    /\ include = <<>>
    /\ exclude \in {<<>>, <<Pat(<<"g.py">>)>>}
    /\ no_gitignore = FALSE
    /\ no_binary_filter \in BOOLEAN
    /\ use_extension_filter \in BOOLEAN
    /\ opt_copy \in BOOLEAN
    /\ opt_output \in BOOLEAN
    /\ Start

Next ==
    \/ BeginCollect
    \/ StartRoot
    \/ WalkDir
    \/ EndCollect
    \/ ReadContents
    \/ Analyze
    \/ Confirm
    \/ Decline
    \/ WriteOutput

Spec == Init /\ [][Next]_vars

----------------------------------------------------------------------------
(* collect_files alone, over trees with nested ignore files, symbolic      *)
(* links and include and exclude patterns.                                 *)

InitCollect ==
    /\ \E gi \in {<<>>, <<Gitignore(<<Pat(<<"e">>)>>)>>,
                   <<Gitignore(<<Pat(<<"*.py">>), NegPat(<<"f.py">>)>>)>>,
                   <<Gitignore(<<AnchoredPat(<<"e">>)>>)>>},
          dgi \in {<<>>, <<Gitignore(<<AnchoredPat(<<"e">>)>>)>>,
                    <<Gitignore(<<Pat(<<"e", "h.py">>)>>)>>,
                    <<Gitignore(<<DirPat(<<"e">>)>>)>>},
          df \in {<<Text(100)>>, <<NulFile(100)>>},
          lnk \in {<<>>, <<Link(W \o <<"big.txt">>)>>, <<Link(<<"o", "t">>)>>} :
         fs = Tree(<< <<W \o <<".gitignore">>, gi>>,
                      <<W \o <<"big.txt">>, <<Text(100)>> >>,
                      <<W \o <<"d", ".gitignore">>, dgi>>,
                      <<W \o <<"d", "f.py">>, df>>,
                      <<W \o <<"d", "lnk">>, lnk>>,
                      <<W \o <<"d", "e", "h.py">>, <<Text(100)>> >>,
                      <<W \o <<"e", "g.py">>, <<Text(100)>> >> >>)
    /\ paths \in {<<W>>, <<W \o <<"d">> >>, <<W \o <<"d", "f.py">> >>,
                  <<W \o <<"d">>, W>>, <<W \o <<"d", "e", "h.py">> >>}
    /\ include \in {<<>>, <<Pat(<<"*.py">>)>>, <<Pat(<<"d">>)>>}
    /\ exclude \in {<<>>, <<Pat(<<"e">>)>>, <<Pat(<<"lnk">>)>>, <<Pat(<<"d", "e">>)>>}
    /\ no_gitignore \in BOOLEAN
    /\ no_binary_filter \in BOOLEAN
    /\ use_extension_filter = FALSE
    /\ opt_copy = FALSE
    /\ opt_output = FALSE
    /\ Start

NextCollect ==
    \/ BeginCollect
    \/ StartRoot
    \/ WalkDir
    \/ EndCollect

SpecCollect == InitCollect /\ [][NextCollect]_vars

----------------------------------------------------------------------------
(* is_binary_file alone, over every short sample of a few bytes. *)

SampleBytes == {0, 7, 10, 11, 65, 200}

RECURSIVE SeqsUpTo(_, _)
SeqsUpTo(S, n) ==
    IF n = 0 THEN {<<>>}
    ELSE LET shorter == SeqsUpTo(S, n - 1)
         IN  shorter \cup {Append(s, b) : s \in {t \in shorter : Len(t) = n - 1}, b \in S}

SampleFile == W \o <<"t">>

InitBin ==
    /\ \E sample \in SeqsUpTo(SampleBytes, MaxChunkLen), readable \in BOOLEAN :
         fs = (SampleFile :> [size |-> Len(sample), bytes |-> sample,
                              readable |-> readable, link |-> <<>>, rules |-> <<>>])
    /\ paths = <<SampleFile>>
    /\ include = <<>>
    /\ exclude = <<>>
    /\ no_gitignore = FALSE
    /\ no_binary_filter = FALSE
    /\ use_extension_filter = FALSE
    /\ opt_copy = FALSE
    /\ opt_output = FALSE
    /\ Start

\* lines 44-74: is_binary_file is called on the file
ClassifyFile ==
    /\ binary_result = <<>>
    /\ binary_result' = <<is_binary_file(SampleFile)>>
    /\ UNCHANGED <<fs, paths, include, exclude, no_gitignore, no_binary_filter,
                   use_extension_filter, pc, current_exclude, all_files,
                   root_idx, gitignore_cache, walk_stack, files_to_process,
                   file_contents, common_root, large_items, written, opt_copy,
                   opt_output, walk_idx, visited, tested, added_via, prev_files,
                   confirms>>

NextBin == ClassifyFile

SpecBin == InitBin /\ [][NextBin]_vars

----------------------------------------------------------------------------
(* The claims about the session (specification Spec). *)

\* files_to_process is the selection of the iteration at hand
AfterSelection ==
    pc \in {"Reading", "Analyzing", "AwaitingConfirmation", "Rendering",
            "Done", "Empty", "Crashed"}

\* large_items is the offender list of the iteration at hand
AfterAnalysis == pc \in {"AwaitingConfirmation", "Rendering", "Done"}

\* C1: every confirmed regeneration selects a strictly smaller file set than
\* the iteration before it (so that a session whose prompts are all confirmed
\* ends after finitely many iterations).
C1_RegenerationShrinks ==
    (confirms >= 1 /\ AfterSelection) =>
        /\ Range(files_to_process) \subseteq prev_files
        /\ Range(files_to_process) # prev_files

\* C2: whenever a directory and one of its descendants are both over the
\* threshold, the offender list holds the descendant and not the directory.
C2_DescendantReported ==
    AfterAnalysis =>
        \A d, q \in PotentialCulprits(file_contents, common_root) :
            IsProperPrefix(d, q) =>
                /\ q \in Range(large_items)
                /\ d \notin Range(large_items)

BigTxt == W \o <<"big.txt">>

SmallTxt == W \o <<"small.txt">>

\* one directory root holding exactly big.txt (800) and small.txt (200),
\* binary filtering disabled
BigSmallScenario ==
    /\ DOMAIN fs = {BigTxt, SmallTxt}
    /\ fs[BigTxt].size = 800 /\ fs[BigTxt].readable
    /\ fs[SmallTxt].size = 200 /\ fs[SmallTxt].readable
    /\ paths = <<W>>
    /\ no_binary_filter

\* C3: in the big.txt/small.txt scenario the first analysis reports big.txt
\* alone; after the confirmation the selection is {small.txt}, the second
\* analysis reports no offenders and no second prompt is shown.
C3_SecondPassClean ==
    BigSmallScenario =>
        /\ (confirms = 0 /\ AfterAnalysis) => large_items = << <<"big.txt">> >>
        /\ (confirms = 1 /\ AfterSelection) => Range(files_to_process) = {SmallTxt}
        /\ (confirms = 1 /\ AfterAnalysis) => large_items = <<>>
        /\ confirms = 1 => pc # "AwaitingConfirmation"

\* C4: a run that reaches the output stage writes to exactly one
\* destination, and to out.txt only when neither --output nor --copy is given.
C4_ExactlyOneDestination ==
    pc = "Done" =>
        /\ Cardinality(written) = 1
        /\ DEFAULT_OUTPUT_FILENAME \in written => (~opt_output /\ ~opt_copy)

\* C4 as amended: a run that reaches the output stage writes to exactly one
\* destination, except that with both --output and --copy it writes to two,
\* the named file and the clipboard; out.txt is written only when neither
\* --output nor --copy is given.
C4_DestinationsByOption ==
    pc = "Done" =>
        /\ written \subseteq {"output", DEFAULT_OUTPUT_FILENAME, "clipboard", "stdout"}
        /\ (opt_copy /\ opt_output) => written = {"output", "clipboard"}
        /\ ~(opt_copy /\ opt_output) => Cardinality(written) = 1
        /\ DEFAULT_OUTPUT_FILENAME \in written => (~opt_output /\ ~opt_copy)

\* C4, witness: a run with --copy and --output has written its output
C4_Witness ==
    /\ pc = "Done"
    /\ opt_copy
    /\ opt_output
    /\ Cardinality(written) = 2

\* C6: a file that cannot be read never aborts the session.
C6_NeverAborts == pc # "Crashed"

\* C9: current_exclude only grows, by at least one pattern on a
\* confirmation and not at all otherwise, and each iteration rebuilds the
\* selection, the cache, the content map and the offender list.
C9_ExcludeOnlyGrows ==
    [][/\ IsPrefix(current_exclude, current_exclude')
       /\ (pc = "AwaitingConfirmation" /\ pc' = "Selecting")
            => Len(current_exclude') >= Len(current_exclude) + 1
       /\ ~(pc = "AwaitingConfirmation" /\ pc' = "Selecting")
            => current_exclude' = current_exclude
       /\ (pc = "Selecting" /\ pc' = "Roots") => all_files' = {}
       /\ (pc = "Roots" /\ root_idx <= Len(paths))
            => DOMAIN gitignore_cache' \subseteq {SearchRoot(Resolve(paths[root_idx]))}
       /\ (pc = "Roots" /\ pc' \in {"Reading", "Empty"})
            => Range(files_to_process') = {af[1] : af \in added_via}
       /\ (pc = "Reading" /\ pc' = "Analyzing")
            => DOMAIN file_contents' = Range(files_to_process)
       /\ (pc = "Analyzing" /\ pc' # "Analyzing")
            => \A item \in Range(large_items') :
                 \E f \in DOMAIN file_contents : IsPrefix(common_root \o item, f)
      ]_vars

\* C9, witness: a regeneration was analysed after a confirmation, with a
\* cache entry loaded during its walk
C9_Witness ==
    /\ confirms >= 1
    /\ pc = "Analyzing"
    /\ Len(current_exclude) > Len(InitialExclude(exclude))
    /\ DOMAIN gitignore_cache # {}

\* C10: every offender is one component directly beneath the common root,
\* or the common root itself when exactly one file is selected; there are
\* at most two offenders.
C10_OffendersAreTopLevel ==
    AfterAnalysis =>
        /\ Len(large_items) <= 2
        /\ \A item \in Range(large_items) :
             \/ /\ Len(item) = 1
                /\ \E f \in Range(files_to_process) : IsPrefix(common_root \o item, f)
             \/ /\ item = <<>>
                /\ Len(files_to_process) = 1
                /\ common_root = files_to_process[1]

\* C10, witness: two offenders, one of them a directory holding a file that
\* is itself over the threshold
C10_Witness ==
    /\ pc = "AwaitingConfirmation"
    /\ Len(large_items) = 2
    /\ \E d, q \in PotentialCulprits(file_contents, common_root) :
         IsProperPrefix(d, q) /\ d \in Range(large_items)

----------------------------------------------------------------------------
(* The claims about collect_files (specification SpecCollect). *)

\* the search scope of the root the walk history belongs to
WalkScope == SearchRoot(Resolve(paths[walk_idx]))

\* the directories the walk at hand handed to is_ignored and got TRUE for
IgnoredDirs ==
    {p \in tested : /\ IsDir(p)
                    /\ is_ignored(p, gitignore_cache, WalkScope, current_exclude, include)}

\* C5: the walk of a root never yields, tests or adds a path beneath a
\* directory that is_ignored reported as ignored.
C5_IgnoredDirsArePruned ==
    walk_idx >= 1 =>
        \A p \in IgnoredDirs :
            \A q \in visited \cup tested \cup {af[1] : af \in {x \in added_via : x[2] = walk_idx}} :
                ~IsProperPrefix(p, q)

\* C5, witness: a finished walk that met an ignored directory with files
\* beneath it and went through at least two directories
C5_Witness ==
    /\ pc = "Roots"
    /\ walk_idx >= 1
    /\ walk_stack = <<>>
    /\ Cardinality(visited) >= 2
    /\ \E p \in IgnoredDirs : \E f \in DOMAIN fs : IsProperPrefix(p, f)

\* the ignore rule of a directory, as collect_files would load it
RuleOf(dir) ==
    IF IsFile(Append(dir, ".gitignore"))
    THEN load_gitignore_spec(Append(dir, ".gitignore"))
    ELSE <<>>

\* what C8 says of a file added through the root of index i
RespectsRules(f, i) ==
    LET scope == SearchRoot(Resolve(paths[i]))
        rel   == Tail_n(f, Len(scope))
    IN  /\ ~MatchFile(current_exclude, rel)
        /\ ~no_gitignore =>
             \A k \in 0..(Len(rel) - 1) :
                ~MatchFile(RuleOf(scope \o SubSeq(rel, 1, k)), Tail_n(rel, k))
        /\ include # <<>> => MatchFile(include, rel)
        /\ ~no_binary_filter =>
             /\ Suffix(Last(f)) \notin DEFAULT_BINARY_EXTENSIONS
             /\ Last(f) \notin lockfile_patterns
             /\ ~use_extension_filter => ~is_binary_file(f)

\* C8: every file of the result is, relative to the scope of the root that
\* added it, not excluded, not ignored by the rule of the scope or of any
\* directory down to the file, included when there are include patterns,
\* and not binary when the binary filter is on.
C8_ResultRespectsRules ==
    \A af \in added_via : RespectsRules(af[1], af[2])

----------------------------------------------------------------------------
(* The claim about is_binary_file (specification SpecBin). *)

\* the texty set of C7
ClaimedTextByte(byte) ==
    (32 <= byte /\ byte <= 126) \/ byte \in {9, 10, 13} \/ byte >= 128

\* the classification C7 states for a sample
ClaimedBinary(c) ==
    IF c = <<>> THEN FALSE
    ELSE IF 0 \in Range(c) THEN TRUE
    ELSE 10 * Cardinality({i \in 1..Len(c) : ~ClaimedTextByte(c[i])}) > 3 * Len(c)

\* C7: on a readable file is_binary_file returns TRUE for a sample with a
\* null byte, else TRUE exactly when more than 30% of the sample lies
\* outside {32..126, 9, 10, 13, >= 128}, and FALSE for an empty sample.
C7_ClassifiesAsClaimed ==
    (binary_result # <<>> /\ fs[SampleFile].readable) =>
        binary_result[1] = ClaimedBinary(ReadChunk(SampleFile))

====
